---- MODULE Spec2Model ----
(***************************************************************************)
(* State-machine model of the follow-up and claim trackers of the medical   *)
(* practice backend (src/ai_backend).                                       *)
(*                                                                          *)
(*   billing_automation.py   BillingAutomation: rule table, follow-up       *)
(*                           records, payment cancellation                  *)
(*   insurance_processor.py  InsuranceProcessor: claim records and the      *)
(*                           per-claim tracking task                        *)
(*   notification_service.py NotificationService: scheduled reminders and   *)
(*                           their delayed delivery                         *)
(*   main.py                 the submit-claim and claim-status request paths *)
(*                                                                          *)
(* Coroutines are split at the awaits that stand for external I/O (payment  *)
(* gateway, message sends, collections case creation, asyncio.sleep).  The  *)
(* code between two such awaits runs without interruption on the event loop *)
(* and is one action.  Awaits of coroutines that only touch local state,    *)
(* such as _initiate_appeal, _handle_payment and the message generators, do *)
(* not suspend and stay inside the action.  The mocks of this build return  *)
(* without suspending, so the runs in which no other coroutine is scheduled *)
(* at an await are among the behaviours.                                    *)
(*                                                                          *)
(* The trackers do not read the value of the clock, only stamp it: the      *)
(* specifications of the trackers leave it where it starts.  The reminder   *)
(* scheduler compares it with the schedule time: SpecNotify lets it run.    *)
(*                                                                          *)
(* Optional dictionary keys are modelled as sequences: << >> is an absent   *)
(* key, <<v>> a key holding v.                                              *)
(***************************************************************************)
EXTENDS Integers, Sequences, FiniteSets, TLC

VARIABLES
    lookup,            \* one call of _get_applicable_rule: arguments and result
    clock,             \* datetime.now(), in ticks
    invoice_db,        \* what _get_invoice_data returns per invoice
    active_followups,  \* BillingAutomation.active_followups: followup_id -> dict object
    records,           \* the follow-up dict objects, named by the call that built them
    sched,             \* the schedule_followup coroutines
    pay,               \* the process_payment coroutines
    claim_tracker,     \* InsuranceProcessor.claim_tracker: claim_id -> dict
    claim_task,        \* per claim: submit_claim coroutine and tracking task
    status_reply,      \* what the last get_claim_status call gave its caller
    appointment_db,    \* what _get_appointment_data returns per appointment
    scheduled_notifications,  \* NotificationService.scheduled_notifications:
                       \* reminder_id -> dict object
    notifications,     \* the reminder dict objects, named by the call that built them
    remind             \* the schedule_reminder coroutines and their delayed tasks

vars == <<lookup, clock, invoice_db, active_followups, records, sched, pay,
          claim_tracker, claim_task, status_reply,
          appointment_db, scheduled_notifications, notifications, remind>>

billing_vars == <<invoice_db, active_followups, records, sched, pay>>
claim_vars == <<claim_tracker, claim_task, status_reply>>
notify_vars == <<appointment_db, scheduled_notifications, notifications, remind>>

----------------------------------------------------------------------------
(* Bounds of the model *)

MaxDays == 100          \* days_overdue ranges over 0..MaxDays in the rule lookups
MaxClock == 2           \* the clock runs from 1 to MaxClock
MaxSched == 2           \* schedule_followup calls
MaxPay == 1             \* process_payment calls
MaxClaims == 2          \* submit_claim calls
DrawSteps == 20         \* random.random() takes the values k/DrawSteps, k < DrawSteps
MaxRemind == 2          \* schedule_reminder calls

----------------------------------------------------------------------------
(* Optional values *)

Unset == << >>
Val(v) == <<v>>
IsSet(o) == o # << >>
Get(o, default) == IF o = << >> THEN default ELSE o[1]

----------------------------------------------------------------------------
(* Rule table: billing_automation.py *)

FollowUpType == {"gentle", "firm", "final_notice", "collections"}

\* Strings a caller may pass as follow_up_type (the API takes any str)
Categories == FollowUpType \cup {"other"}

BillingRule(d, t, a, tpl) ==
    [days_after_due |-> d, follow_up_type |-> t, action |-> a, template_id |-> tpl]

billing_rules ==
    << BillingRule(7, "gentle", "send_reminder", "gentle_reminder"),
       BillingRule(30, "firm", "send_reminder", "firm_reminder"),
       BillingRule(60, "final_notice", "send_final_notice", "final_notice"),
       BillingRule(90, "collections", "send_to_collections", "collections_notice") >>

\* Python's None as returned by _get_applicable_rule
NoRule == BillingRule(-1, "None", "None", "None")

\* The rules the first loop accepts, by position
ExactMatches(days_overdue, follow_up_type) ==
    { i \in DOMAIN billing_rules :
        /\ billing_rules[i].days_after_due <= days_overdue
        /\ billing_rules[i].follow_up_type = follow_up_type }

\* applicable_rules of the second pass, by position
ApplicableRules(days_overdue) ==
    { i \in DOMAIN billing_rules : billing_rules[i].days_after_due <= days_overdue }

\* max(applicable_rules, key=days_after_due): the first rule holding the maximum
MaxByDays(S) ==
    LET top == { i \in S : \A j \in S :
                    billing_rules[j].days_after_due <= billing_rules[i].days_after_due }
    IN  billing_rules[CHOOSE i \in top : \A j \in top : i <= j]

\* Mutation: the closest match is the applicable rule with the smallest
\* threshold
get_applicable_rule_MinFallback(days_overdue, follow_up_type) ==
    LET exact == ExactMatches(days_overdue, follow_up_type)
        below == ApplicableRules(days_overdue)
    IN  IF exact # {}
        THEN billing_rules[CHOOSE i \in exact : \A j \in exact : i <= j]
        ELSE IF below # {}
             THEN billing_rules[CHOOSE i \in below : \A j \in below : i <= j]
             ELSE NoRule

\* Mutation: the exact-match loop forgets the threshold test
get_applicable_rule_NoThreshold(days_overdue, follow_up_type) ==
    LET exact == { i \in DOMAIN billing_rules :
                     billing_rules[i].follow_up_type = follow_up_type }
    IN  IF exact # {}
        THEN billing_rules[CHOOSE i \in exact : \A j \in exact : i <= j]
        ELSE IF ApplicableRules(days_overdue) # {}
             THEN MaxByDays(ApplicableRules(days_overdue))
             ELSE NoRule

\* Mutation: the exact-match loop is missing, only the closest match is used
get_applicable_rule_ClosestOnly(days_overdue, follow_up_type) ==
    IF ApplicableRules(days_overdue) # {}
    THEN MaxByDays(ApplicableRules(days_overdue))
    ELSE NoRule

get_applicable_rule(days_overdue, follow_up_type) ==
    LET exact == ExactMatches(days_overdue, follow_up_type)
    IN  IF exact # {}
        THEN billing_rules[CHOOSE i \in exact : \A j \in exact : i <= j]
        ELSE IF ApplicableRules(days_overdue) # {}
             THEN MaxByDays(ApplicableRules(days_overdue))
             ELSE NoRule

----------------------------------------------------------------------------
(* Billing follow-up tracker: billing_automation.py *)

\* invoice ids the calls are made with
Invoices == {"INV-1", "INV-2"}
SchedCalls == 1..MaxSched
PayCalls == 1..MaxPay

\* (days_overdue, follow_up_type) pairs the follow-up calls are made with:
\* below the first threshold, an exact match for each action, and a category
\* that is no rule's
SchedRequests == { <<6, "firm">>, <<35, "firm">>, <<65, "final_notice">>,
                   <<95, "collections">>, <<95, "other">> }

\* The pairs of the calls made below the first threshold, with one pair above
\* it that leaves a record behind
LowRequests == ({0, 6} \X Categories) \cup { <<35, "firm">> }

\* _get_invoice_data: the snapshot the mock returns for every invoice
MockInvoice == [amount |-> 250, email |-> Val("john.doe@email.com"),
                phone |-> Val("555-123-4567")]

\* PaymentProcessor.process_payment: the statuses it returns
PaymentResults == {"success"}

\* Shapes of the snapshot an invoice lookup may give: an amount in each band of
\* _send_billing_reminder, with or without each contact field
InvoiceSnapshots ==
    [amount : {50, 250, 600},
     email : {Unset, Val("john.doe@email.com")},
     phone : {Unset, Val("555-123-4567")}]

\* The requests made in the runs over the shapes of the snapshot: one per action
ContactRequests == { <<35, "firm">>, <<65, "final_notice">>, <<95, "collections">> }

\* Invoice amounts around the two limits of _send_billing_reminder
Amounts == {0, 99, 100, 101, 499, 500, 501}

\* The requests made in the runs over the amounts: the two reminder rules
ReminderRequests == { <<10, "gentle">>, <<35, "firm">> }

\* Results a payment gateway gives when a payment does not go through; the
\* processor of this build never gives them
DeclinedResults == {"failed", "pending"}

\* The requests made in the runs with failing collaborators
FaultRequests == { <<35, "firm">>, <<95, "collections">> }

\* followup_id = f"BF-{invoice_id}-{follow_up_type}"
FollowupId(invoice_id, follow_up_type) == <<invoice_id, follow_up_type>>

\* The dict stored at active_followups[followup_id] by schedule_followup
NewFollowup(invoice_id, days_overdue, follow_up_type, rule, invoice_data, now) ==
    [invoice_id |-> invoice_id,
     days_overdue |-> days_overdue,
     follow_up_type |-> follow_up_type,
     rule |-> rule,
     invoice_data |-> invoice_data,
     status |-> "scheduled",
     created_at |-> now,
     executed_at |-> Unset,
     cancelled_at |-> Unset,
     collections_id |-> Unset,
     sent_to_collections |-> FALSE]

\* Mutation: the comparisons of the amount are >= instead of >
ReminderChannels_Inclusive(amount) ==
    IF amount >= 500 THEN <<"email", "phone_call">>
    ELSE IF amount >= 100 THEN <<"email">>
    ELSE <<"sms">>

\* The external calls _send_billing_reminder awaits, in order, by amount
ReminderChannels(amount) ==
    IF amount > 500 THEN <<"email", "phone_call">>
    ELSE IF amount > 100 THEN <<"email">>
    ELSE <<"sms">>

\* The external calls _execute_followup_action awaits for a rule, in order
ActionCalls(rule, invoice_data) ==
    IF rule.action = "send_reminder" THEN ReminderChannels(invoice_data.amount)
    ELSE IF rule.action = "send_final_notice" THEN <<"email", "certified_mail">>
    ELSE IF rule.action = "send_to_collections" THEN <<"collections_case", "email">>
    ELSE << >>

\* Mutation: the sends do not look at the contact fields
Delivers_Always(call, invoice_data) ==
    call \in {"email", "sms", "phone_call", "certified_mail"}

\* Whether a send goes out: _send_email_reminder, _send_sms_reminder,
\* _schedule_phone_call return early without the contact field
Delivers(call, invoice_data) ==
    CASE call = "email" -> IsSet(invoice_data.email)
      [] call = "sms" -> IsSet(invoice_data.phone)
      [] call = "phone_call" -> IsSet(invoice_data.phone)
      [] call = "certified_mail" -> TRUE
      [] OTHER -> FALSE

IdleSched == [pc |-> "idle", invoice_id |-> "None", days_overdue |-> 0,
              follow_up_type |-> "None", todo |-> << >>,
              collections_id |-> Unset, dispatched |-> {}]

IdlePay == [pc |-> "idle", invoice_id |-> "None", result |-> "None"]

\* The status stored in the table under a follow-up id
StoredStatus(fid) == records[active_followups[fid]].status

\* Mutation: a record cancelled while its sends were under way stays cancelled
FinishFollowup_KeepCancelled(followup, collections_id, now) ==
    IF followup.status = "cancelled" THEN followup
    ELSE [followup EXCEPT !.status = "executed", !.executed_at = Val(now)]

\* _execute_followup_action, lines 123-125 (and _send_to_collections, 183-184):
\* the writes made on the dict the coroutine holds once its last send is over
FinishFollowup(followup, collections_id, now) ==
    LET stamped == IF followup.rule.action = "send_to_collections"
                   THEN [followup EXCEPT !.collections_id = collections_id,
                                         !.sent_to_collections = TRUE]
                   ELSE followup
    IN  [stamped EXCEPT !.status = "executed", !.executed_at = Val(now)]

\* Mutation: the follow-up id is drawn per call instead of being derived from
\* the invoice and the category
ScheduleFollowup_IdPerCall(c, invoice_id, days_overdue, follow_up_type) ==
    /\ sched[c].pc = "idle"
    /\ \A b \in SchedCalls : b < c => sched[b].pc # "idle"
    /\ LET followup_id == <<invoice_id, follow_up_type, c>>
           invoice_data == invoice_db[invoice_id]
           rule == get_applicable_rule(days_overdue, follow_up_type)
           followup == NewFollowup(invoice_id, days_overdue, follow_up_type,
                                   rule, invoice_data, clock)
           started == [IdleSched EXCEPT !.invoice_id = invoice_id,
                                        !.days_overdue = days_overdue,
                                        !.follow_up_type = follow_up_type]
       IN  IF rule = NoRule
           THEN /\ sched' = [sched EXCEPT ![c] = [started EXCEPT !.pc = "done"]]
                /\ UNCHANGED <<active_followups, records>>
           ELSE /\ active_followups' =
                      [fid \in DOMAIN active_followups \cup {followup_id} |->
                         IF fid = followup_id THEN c ELSE active_followups[fid]]
                /\ records' = [r \in DOMAIN records \cup {c} |->
                                 IF r = c THEN followup ELSE records[r]]
                /\ sched' = [sched EXCEPT ![c] =
                               [started EXCEPT !.pc = "action",
                                               !.todo = ActionCalls(rule, invoice_data)]]
    /\ UNCHANGED <<notify_vars, lookup, clock, invoice_db, pay, claim_vars>>

\* schedule_followup, lines 62-86, up to the first external call of the action:
\* the invoice snapshot is fetched, the rule is resolved and, when there is one,
\* the record is stored.  The lookup reads nothing the other coroutines write
\* and precedes every write of the call, so a call suspended in it behaves as a
\* call that starts later: lookup and continuation are one action.
ScheduleFollowup(c, invoice_id, days_overdue, follow_up_type) ==
    /\ sched[c].pc = "idle"
    /\ \A b \in SchedCalls : b < c => sched[b].pc # "idle"
    /\ LET followup_id == FollowupId(invoice_id, follow_up_type)
           invoice_data == invoice_db[invoice_id]
           rule == get_applicable_rule(days_overdue, follow_up_type)
           followup == NewFollowup(invoice_id, days_overdue, follow_up_type,
                                   rule, invoice_data, clock)
           started == [IdleSched EXCEPT !.invoice_id = invoice_id,
                                        !.days_overdue = days_overdue,
                                        !.follow_up_type = follow_up_type]
       IN  IF rule = NoRule
           THEN /\ sched' = [sched EXCEPT ![c] = [started EXCEPT !.pc = "done"]]
                /\ UNCHANGED <<active_followups, records>>
           ELSE /\ active_followups' =
                      [fid \in DOMAIN active_followups \cup {followup_id} |->
                         IF fid = followup_id THEN c ELSE active_followups[fid]]
                /\ records' = [r \in DOMAIN records \cup {c} |->
                                 IF r = c THEN followup ELSE records[r]]
                /\ sched' = [sched EXCEPT ![c] =
                               [started EXCEPT !.pc = "action",
                                               !.todo = ActionCalls(rule, invoice_data)]]
    /\ UNCHANGED <<notify_vars, lookup, clock, invoice_db, pay, claim_vars>>

\* Mutation: a follow-up whose record was cancelled stops before its next send
FollowupStep_StopsWhenCancelled(c) ==
    /\ sched[c].pc = "action"
    /\ sched[c].todo # << >>
    /\ records[c].status # "cancelled"
    /\ LET s == sched[c]
           call == Head(s.todo)
           rest == Tail(s.todo)
           case_id == IF call = "collections_case" THEN Val(clock) ELSE s.collections_id
           out == IF Delivers(call, records[c].invoice_data)
                  THEN s.dispatched \cup {call} ELSE s.dispatched
       IN  /\ sched' = [sched EXCEPT ![c].todo = rest,
                                     ![c].collections_id = case_id,
                                     ![c].dispatched = out,
                                     ![c].pc = IF rest = << >> THEN "done" ELSE "action"]
           /\ records' = IF rest = << >>
                         THEN [records EXCEPT ![c] = FinishFollowup(@, case_id, clock)]
                         ELSE records
    /\ UNCHANGED <<notify_vars, lookup, clock, invoice_db, active_followups, pay, claim_vars>>

\* One external call of the action completes; after the last one the record the
\* coroutine holds is marked executed and schedule_followup returns
FollowupStep(c) ==
    /\ sched[c].pc = "action"
    /\ sched[c].todo # << >>
    /\ LET s == sched[c]
           call == Head(s.todo)
           rest == Tail(s.todo)
           case_id == IF call = "collections_case" THEN Val(clock) ELSE s.collections_id
           out == IF Delivers(call, records[c].invoice_data)
                  THEN s.dispatched \cup {call} ELSE s.dispatched
       IN  /\ sched' = [sched EXCEPT ![c].todo = rest,
                                     ![c].collections_id = case_id,
                                     ![c].dispatched = out,
                                     ![c].pc = IF rest = << >> THEN "done" ELSE "action"]
           /\ records' = IF rest = << >>
                         THEN [records EXCEPT ![c] = FinishFollowup(@, case_id, clock)]
                         ELSE records
    /\ UNCHANGED <<notify_vars, lookup, clock, invoice_db, active_followups, pay, claim_vars>>

\* process_payment, line 354: the call starts and awaits the payment processor
ProcessPayment(p, invoice_id) ==
    /\ pay[p].pc = "idle"
    /\ \A q \in PayCalls : q < p => pay[q].pc # "idle"
    /\ pay' = [pay EXCEPT ![p] = [IdlePay EXCEPT !.pc = "processing",
                                                  !.invoice_id = invoice_id]]
    /\ UNCHANGED <<notify_vars, lookup, clock, invoice_db, active_followups, records, sched, claim_vars>>

\* Mutation: the status test of the cancellation filter is dropped
ToCancel_AnyStatus(invoice_id) ==
    { fid \in DOMAIN active_followups :
        records[active_followups[fid]].invoice_id = invoice_id }

\* _cancel_followups_for_invoice, lines 367-368: the ids to cancel
ToCancel(invoice_id) ==
    { fid \in DOMAIN active_followups :
        /\ records[active_followups[fid]].invoice_id = invoice_id
        /\ records[active_followups[fid]].status = "scheduled" }

\* _cancel_followups_for_invoice, lines 370-372: the table's dicts after the loop
CancelFollowups(invoice_id, now) ==
    LET objs == { active_followups[fid] : fid \in ToCancel(invoice_id) }
    IN  [r \in DOMAIN records |->
            IF r \in objs
            THEN [records[r] EXCEPT !.status = "cancelled", !.cancelled_at = Val(now)]
            ELSE records[r]]

\* Mutation: the follow-ups are cancelled whatever the processor answered
AfterPayment_AlwaysCancel(invoice_id, result, now) ==
    CancelFollowups(invoice_id, now)

\* process_payment, lines 356-360: the table's dicts once the processor has
\* answered; only a result with status success cancels
AfterPayment(invoice_id, result, now) ==
    IF result = "success" THEN CancelFollowups(invoice_id, now) ELSE records

\* process_payment, lines 354-362: the processor answers with a result; the
\* follow-ups are treated accordingly and the result is returned
PaymentAnswered(p, result) ==
    /\ pay[p].pc = "processing"
    /\ pay' = [pay EXCEPT ![p].pc = "done", ![p].result = result]
    /\ records' = AfterPayment(pay[p].invoice_id, result, clock)
    /\ UNCHANGED <<notify_vars, lookup, clock, invoice_db, active_followups, sched, claim_vars>>

\* process_payment with the processor of this build, whose result is always success
PaymentProcessed(p) == \E result \in PaymentResults : PaymentAnswered(p, result)

\* process_payment with a processor that answers something else than success:
\* the condition of line 356 is false
PaymentDeclined(p) == \E result \in DeclinedResults : PaymentAnswered(p, result)

\* Mutation: the record is stored before the invoice is looked up
InvoiceLookupFails_StoredFirst(c, invoice_id, days_overdue, follow_up_type) ==
    /\ sched[c].pc = "idle"
    /\ \A b \in SchedCalls : b < c => sched[b].pc # "idle"
    /\ LET followup_id == FollowupId(invoice_id, follow_up_type)
           rule == get_applicable_rule(days_overdue, follow_up_type)
       IN  /\ active_followups' =
                 [fid \in DOMAIN active_followups \cup {followup_id} |->
                    IF fid = followup_id THEN c ELSE active_followups[fid]]
           /\ records' = [r \in DOMAIN records \cup {c} |->
                            IF r = c
                            THEN NewFollowup(invoice_id, days_overdue, follow_up_type,
                                             rule, MockInvoice, clock)
                            ELSE records[r]]
    /\ sched' = [sched EXCEPT ![c] = [IdleSched EXCEPT !.pc = "raised",
                                                       !.invoice_id = invoice_id,
                                                       !.days_overdue = days_overdue,
                                                       !.follow_up_type = follow_up_type]]
    /\ UNCHANGED <<notify_vars, lookup, clock, invoice_db, pay, claim_vars>>

\* schedule_followup, lines 60-65, when _get_invoice_data raises: the await of
\* line 65 is not inside a try block and precedes every write of the call, so the
\* exception leaves schedule_followup at once
InvoiceLookupFails(c, invoice_id, days_overdue, follow_up_type) ==
    /\ sched[c].pc = "idle"
    /\ \A b \in SchedCalls : b < c => sched[b].pc # "idle"
    /\ sched' = [sched EXCEPT ![c] = [IdleSched EXCEPT !.pc = "raised",
                                                       !.invoice_id = invoice_id,
                                                       !.days_overdue = days_overdue,
                                                       !.follow_up_type = follow_up_type]]
    /\ UNCHANGED <<notify_vars, lookup, clock, invoice_db, active_followups, records, pay, claim_vars>>

\* Time passes between two readings of datetime.now()
Tick ==
    /\ clock < MaxClock
    /\ clock' = clock + 1
    /\ UNCHANGED <<notify_vars, lookup, billing_vars, claim_vars>>

----------------------------------------------------------------------------
(* Claim lifecycle tracker: insurance_processor.py *)

ClaimIds == 1..MaxClaims

\* ai_analysis as submit_claim receives it: the approval_likelihood key may be
\* missing (the analysis of a failed query), else it holds a percentage
AiAnalyses == {Unset, Val(0), Val(40), Val(100)}

\* _track_claim_status, line 66
statuses == <<"submitted", "received", "processing", "adjudicated", "paid">>

\* The dict submit_claim stores at claim_tracker[claim_id]
NewClaim(ai_analysis, now) ==
    [status |-> "submitted",
     submission_date |-> now,
     ai_analysis |-> ai_analysis,
     clearinghouse_id |-> Unset,
     last_updated |-> Unset,
     adjudication_result |-> Unset,
     approved_amount |-> Unset,
     denial_reason |-> Unset,
     payment_amount |-> Unset,
     payment_date |-> Unset,
     appeal_id |-> Unset,
     appeal_status |-> Unset,
     appeal_date |-> Unset]

NewTask == [pc |-> "new", next |-> 1, returned |-> Unset, claim_id |-> Unset,
            handed |-> Unset, answer |-> "None"]

\* submit_claim, line 26: f"CLM-{timestamp}-{first 8 characters of a uuid4}"; the
\* uuid part is fresh per call
TrackedClaimId(now, uuid) == <<"CLM", now, uuid>>

\* submit_insurance_claim, main.py line 176: f"CLM-{timestamp}"
RequestClaimId(now) == <<"CLM", now>>

\* No get_claim_status reply is waiting for its caller.  get_claim_status has
\* no await, so its caller has the reply before any other coroutine runs
NoReply == [claim_id |-> 0, error |-> "None", snapshot |-> Unset]
ReplyTaken == status_reply = NoReply

\* submit_claim, lines 26-38, and _submit_to_clearinghouse up to its sleep:
\* a fresh id is drawn, the record is stored, the clearinghouse call is under way
SubmitClaim(c, ai_analysis) ==
    /\ ReplyTaken
    /\ claim_task[c].pc = "new"
    /\ \A b \in ClaimIds : b < c => claim_task[b].pc # "new"
    /\ claim_tracker' = [k \in DOMAIN claim_tracker \cup {c} |->
                           IF k = c THEN NewClaim(ai_analysis, clock)
                           ELSE claim_tracker[k]]
    /\ claim_task' = [claim_task EXCEPT ![c].pc = "clearinghouse",
                                        ![c].claim_id = Val(TrackedClaimId(clock, c))]
    /\ UNCHANGED <<notify_vars, lookup, clock, billing_vars, status_reply>>

\* submit_insurance_claim, main.py lines 158-178: the request path queues
\* submit_claim as a background task and hands an id of its own making back
SubmitClaimRequest(c) ==
    /\ ReplyTaken
    /\ claim_task[c].pc = "new"
    /\ claim_task[c].handed = Unset
    /\ \A b \in ClaimIds : b < c => IsSet(claim_task[b].handed)
    /\ claim_task' = [claim_task EXCEPT ![c].handed = Val(RequestClaimId(clock))]
    /\ UNCHANGED <<notify_vars, lookup, clock, billing_vars, claim_tracker, status_reply>>

\* The tracker entries stored under a claim id string
TrackedUnder(claim_id) ==
    { k \in DOMAIN claim_tracker : claim_task[k].claim_id = Val(claim_id) }

\* get_claim_status, main.py lines 182-192 and insurance_processor.py lines
\* 145-146, called by the requester with the id handed back: found when the id
\* is a key of the tracker, else not found
ClaimStatusRequest(c) ==
    /\ ReplyTaken
    /\ IsSet(claim_task[c].handed)
    /\ claim_task[c].answer = "None"
    /\ claim_task' = [claim_task EXCEPT ![c].answer =
                         IF TrackedUnder(claim_task[c].handed[1]) # {}
                         THEN "found" ELSE "not found"]
    /\ UNCHANGED <<notify_vars, lookup, clock, billing_vars, claim_tracker, status_reply>>

\* _submit_to_clearinghouse, lines 58-60: the writes after the simulated delay
ClearinghouseUpdate(claim) ==
    [claim EXCEPT !.status = "in_progress", !.clearinghouse_id = Val("CH")]

\* _submit_to_clearinghouse, lines 55-60, then submit_claim, lines 41-43: the
\* delay is over, the record is updated, the tracking task is created and the
\* claim id is returned
ClearinghouseDone(c) ==
    /\ ReplyTaken
    /\ claim_task[c].pc = "clearinghouse"
    /\ claim_tracker' = IF c \in DOMAIN claim_tracker
                        THEN [claim_tracker EXCEPT ![c] = ClearinghouseUpdate(@)]
                        ELSE claim_tracker
    /\ claim_task' = [claim_task EXCEPT ![c].pc = "tracking", ![c].returned = Val(c)]
    /\ UNCHANGED <<notify_vars, lookup, clock, billing_vars, status_reply>>

\* Mutation: the comparison of the draw is <= instead of <
is_approved_Inclusive(draw, approval_likelihood) ==
    draw * 100 <= approval_likelihood * DrawSteps

\* _handle_adjudication, line 92: random.random() * 100 < approval_likelihood,
\* with random.random() = draw / DrawSteps
is_approved(draw, approval_likelihood) ==
    draw * 100 < approval_likelihood * DrawSteps

\* _initiate_appeal, lines 120-124
initiate_appeal(claim, now) ==
    [claim EXCEPT !.appeal_id = Val("APP"),
                  !.appeal_status = Val("submitted"),
                  !.appeal_date = Val(now)]

\* Mutation: the appeal is started for every adjudicated claim
handle_adjudication_AlwaysAppeal(claim, draw, now) ==
    IF is_approved(draw, Get(claim.ai_analysis, 75))
    THEN initiate_appeal([claim EXCEPT !.adjudication_result = Val("approved"),
                                       !.approved_amount = Val(450)], now)
    ELSE initiate_appeal([claim EXCEPT !.adjudication_result = Val("denied"),
                                       !.denial_reason = Val("Medical necessity not established")],
                         now)

\* _handle_adjudication, lines 87-102
handle_adjudication(claim, draw, now) ==
    IF is_approved(draw, Get(claim.ai_analysis, 75))
    THEN [claim EXCEPT !.adjudication_result = Val("approved"),
                       !.approved_amount = Val(450)]
    ELSE initiate_appeal([claim EXCEPT !.adjudication_result = Val("denied"),
                                       !.denial_reason = Val("Medical necessity not established")],
                         now)

\* Mutation: the payment is posted whatever the adjudication result
handle_payment_Unconditional(claim, now) ==
    [claim EXCEPT !.payment_amount = Val(Get(claim.approved_amount, 0)),
                  !.payment_date = Val(now)]

\* Mutation: the payment handler writes nothing
handle_payment_Skipped(claim, now) == claim

\* _handle_payment, lines 107-110
handle_payment(claim, now) ==
    IF claim.adjudication_result = Val("approved")
    THEN [claim EXCEPT !.payment_amount = Val(Get(claim.approved_amount, 0)),
                       !.payment_date = Val(now)]
    ELSE claim

\* Mutation: the adjudication handler also runs in the round that writes "paid"
TrackUpdate_ReAdjudicate(claim, status, draw, now) ==
    LET written == [claim EXCEPT !.status = status, !.last_updated = Val(now)]
    IN  IF status = "adjudicated" THEN handle_adjudication(written, draw, now)
        ELSE IF status = "paid"
             THEN handle_payment(handle_adjudication(written, draw, now), now)
             ELSE written

\* Mutation: the adjudication handler runs one round late, with the payment
TrackUpdate_AdjudicateLate(claim, status, draw, now) ==
    LET written == [claim EXCEPT !.status = status, !.last_updated = Val(now)]
    IN  IF status = "paid"
        THEN handle_payment(handle_adjudication(written, draw, now), now)
        ELSE written

\* _track_claim_status, lines 72-79: the writes of one round on the record
TrackUpdate(claim, status, draw, now) ==
    LET written == [claim EXCEPT !.status = status, !.last_updated = Val(now)]
    IN  IF status = "adjudicated" THEN handle_adjudication(written, draw, now)
        ELSE IF status = "paid" THEN handle_payment(written, now)
        ELSE written

\* The values random.random() may take in a round: only adjudication draws
Draws(status) == IF status = "adjudicated" THEN 0..(DrawSteps - 1) ELSE {0}

\* _track_claim_status, lines 68-79: one round of the loop, after its sleep
TrackStep(c) ==
    /\ ReplyTaken
    /\ claim_task[c].pc = "tracking"
    /\ LET i == claim_task[c].next
           status == statuses[i]
       IN  /\ \E draw \in Draws(status) :
                claim_tracker' =
                  IF c \in DOMAIN claim_tracker
                  THEN [claim_tracker EXCEPT ![c] = TrackUpdate(@, status, draw, clock)]
                  ELSE claim_tracker
           /\ claim_task' = [claim_task EXCEPT
                               ![c].next = i + 1,
                               ![c].pc = IF i = Len(statuses) THEN "finished"
                                         ELSE "tracking"]
    /\ UNCHANGED <<notify_vars, lookup, clock, billing_vars, status_reply>>

\* The snapshot get_claim_status builds, lines 150-162
StatusSnapshot(claim_id, claim_info) ==
    [claim_id |-> claim_id,
     status |-> claim_info.status,
     submission_date |-> claim_info.submission_date,
     last_updated |-> claim_info.last_updated,
     adjudication_result |-> claim_info.adjudication_result,
     approved_amount |-> claim_info.approved_amount,
     payment_amount |-> claim_info.payment_amount,
     payment_date |-> claim_info.payment_date,
     denial_reason |-> claim_info.denial_reason,
     appeal_id |-> claim_info.appeal_id,
     appeal_status |-> claim_info.appeal_status]

\* Mutation: an unknown id gets a fresh entry, as with dict.setdefault, and the
\* entry is returned
GetClaimStatus_CreatesEntry(claim_id) ==
    /\ ReplyTaken
    /\ claim_tracker' = [k \in DOMAIN claim_tracker \cup {claim_id} |->
                           IF k \in DOMAIN claim_tracker THEN claim_tracker[k]
                           ELSE NewClaim(Unset, clock)]
    /\ status_reply' = [claim_id |-> claim_id, error |-> "None",
                        snapshot |-> Val(StatusSnapshot(claim_id, claim_tracker'[claim_id]))]
    /\ UNCHANGED <<notify_vars, lookup, clock, billing_vars, claim_task>>

\* get_claim_status, lines 145-162: raises for an unknown id, else returns the
\* snapshot; the tracker is only read
GetClaimStatus(claim_id) ==
    /\ ReplyTaken
    /\ status_reply' =
          IF claim_id \notin DOMAIN claim_tracker
          THEN [claim_id |-> claim_id, error |-> "not found", snapshot |-> Unset]
          ELSE [claim_id |-> claim_id, error |-> "None",
                snapshot |-> Val(StatusSnapshot(claim_id, claim_tracker[claim_id]))]
    /\ UNCHANGED <<notify_vars, lookup, clock, billing_vars, claim_tracker, claim_task>>

\* The caller of get_claim_status takes the reply
TakeReply ==
    /\ status_reply # NoReply
    /\ status_reply' = NoReply
    /\ UNCHANGED <<notify_vars, lookup, clock, billing_vars, claim_tracker, claim_task>>

----------------------------------------------------------------------------
(* Reminder scheduler, notification_service.py *)

Appointments == {"APT-1"}
RemindCalls == 1..MaxRemind

\* reminder_type of a request: the three of the API and the channel name voice
ReminderTypes == {"sms", "email", "call", "voice"}

\* schedule_time of a request: absent, or a time on the clock
ScheduleTimes == {Unset} \cup { Val(t) : t \in 1..MaxClock }

\* The appointment of _get_appointment_data, 2024-08-20T10:00:00: before every
\* reading of the clock
AppointmentTime == 0

\* timedelta(hours=24), in ticks
ReminderLead == 1

MockAppointment == [phone |-> Val("555-123-4567"),
                    email |-> Val("john.doe@email.com"),
                    datetime |-> AppointmentTime]

\* _load_templates: template id -> channel of the template
templates ==
    [t \in {"appointment_reminder_sms", "appointment_reminder_email",
            "billing_reminder_email", "no_show_followup"} |->
       IF t \in {"appointment_reminder_email", "billing_reminder_email"}
       THEN "email" ELSE "sms"]

\* f"appointment_reminder_{notification['channel']}"
TemplateId(channel) ==
    CASE channel = "sms" -> "appointment_reminder_sms"
      [] channel = "email" -> "appointment_reminder_email"
      [] channel = "call" -> "appointment_reminder_call"
      [] channel = "voice" -> "appointment_reminder_voice"

\* f"REM-{appointment_id}-{reminder_type}"
ReminderId(appointment_id, reminder_type) == <<"REM", appointment_id, reminder_type>>

\* The dict stored at scheduled_notifications[reminder_id] by schedule_reminder
NewNotification(appointment_id, reminder_type, schedule_time, appointment_data) ==
    [type |-> "appointment_reminder",
     channel |-> reminder_type,
     appointment_id |-> appointment_id,
     schedule_time |-> schedule_time,
     data |-> appointment_data,
     status |-> "scheduled",
     sent_time |-> Unset]

\* Shapes of what an appointment lookup may give: with or without each contact
\* field
AppointmentShapes ==
    [phone : {Unset, Val("555-123-4567")},
     email : {Unset, Val("john.doe@email.com")},
     datetime : {AppointmentTime}]

\* Mutation: the send of the template's channel does not look at the contact field
SendOutcome_AnyRecipient(template_id, recipient_data) ==
    IF template_id \notin DOMAIN templates THEN "raise" ELSE "send"

\* What _send_notification does with a template id: raise when there is no such
\* template, await a send when the channel of the template has its contact
\* field, else return at once
SendOutcome(template_id, recipient_data) ==
    IF template_id \notin DOMAIN templates THEN "raise"
    ELSE LET channel == templates[template_id]
         IN  IF channel = "sms" /\ IsSet(recipient_data.phone) THEN "send"
             ELSE IF channel = "email" /\ IsSet(recipient_data.email) THEN "send"
             ELSE IF channel = "voice" /\ IsSet(recipient_data.phone) THEN "send"
             ELSE "skip"

IdleRemind == [pc |-> "idle", appointment_id |-> "None", reminder_type |-> "None",
               wake_at |-> 0, runs |-> 0, held |-> 0, returned |-> FALSE,
               error |-> "None"]

\* _execute_scheduled_notification, lines 206-207: the writes on the dict it holds
MarkSent(notification, now) ==
    [notification EXCEPT !.status = "sent", !.sent_time = Val(now)]

\* _execute_scheduled_notification, lines 187-203, entered by coroutine k, up to
\* the send: the dict stored under the reminder id is taken and the template is
\* resolved.  Gives the coroutine and the dicts after it; raised_pc is where the
\* coroutine ends when the template is missing.
ExecuteNotification(coroutine, objects, table, reminder_id, raised_pc, now) ==
    LET entered == [coroutine EXCEPT !.runs = @ + 1]
    IN  IF reminder_id \notin DOMAIN table
        THEN [co |-> [entered EXCEPT !.pc = "done", !.returned = TRUE], objs |-> objects]
        ELSE LET held == table[reminder_id]
                 notification == objects[held]
                 outcome == SendOutcome(TemplateId(notification.channel),
                                        notification.data)
             IN  CASE outcome = "raise" ->
                        [co |-> [entered EXCEPT !.pc = raised_pc, !.held = held,
                                                !.returned = TRUE,
                                                !.error = "template not found"],
                         objs |-> objects]
                   [] outcome = "send" ->
                        [co |-> [entered EXCEPT !.pc = "sending", !.held = held],
                         objs |-> objects]
                   [] OTHER ->
                        [co |-> [entered EXCEPT !.pc = "done", !.held = held,
                                                !.returned = TRUE],
                         objs |-> [objects EXCEPT ![held] = MarkSent(@, now)]]

\* schedule_reminder, lines 101-123, with _schedule_notification, lines 170-177:
\* the appointment is fetched, the dict is stored under the reminder id and the
\* delay is computed.  With a positive delay the delayed task is created and the
\* call returns; otherwise _execute_scheduled_notification runs inside the call.
ScheduleReminder(k, appointment_id, reminder_type, schedule_time) ==
    /\ remind[k].pc = "idle"
    /\ \A j \in RemindCalls : j < k => remind[j].pc # "idle"
    /\ LET appointment_data == appointment_db[appointment_id]
           when == IF schedule_time = Unset
                   THEN appointment_data.datetime - ReminderLead
                   ELSE schedule_time[1]
           reminder_id == ReminderId(appointment_id, reminder_type)
           table == [r \in DOMAIN scheduled_notifications \cup {reminder_id} |->
                       IF r = reminder_id THEN k ELSE scheduled_notifications[r]]
           objects == [o \in DOMAIN notifications \cup {k} |->
                         IF o = k
                         THEN NewNotification(appointment_id, reminder_type, when,
                                              appointment_data)
                         ELSE notifications[o]]
           delay_seconds == when - clock
           started == [IdleRemind EXCEPT !.appointment_id = appointment_id,
                                         !.reminder_type = reminder_type,
                                         !.wake_at = clock + delay_seconds]
           inline == ExecuteNotification(started, objects, table, reminder_id,
                                         "raised", clock)
       IN  /\ scheduled_notifications' = table
           /\ IF delay_seconds > 0
              THEN /\ notifications' = objects
                   /\ remind' = [remind EXCEPT ![k] =
                                   [started EXCEPT !.pc = "sleeping", !.returned = TRUE]]
              ELSE /\ notifications' = inline.objs
                   /\ remind' = [remind EXCEPT ![k] = inline.co]
    /\ UNCHANGED <<lookup, clock, billing_vars, claim_vars, appointment_db>>

\* Mutation: the delayed task does not sleep
Elapsed_AtOnce(wake_at, now) == TRUE

\* asyncio.sleep(delay_seconds), line 181, is over
Elapsed(wake_at, now) == now >= wake_at

\* _delayed_notification, lines 181-182: the sleep is over and
\* _execute_scheduled_notification runs in the task, up to its send
DelayElapsed(k) ==
    /\ remind[k].pc = "sleeping"
    /\ Elapsed(remind[k].wake_at, clock)
    /\ LET reminder_id == ReminderId(remind[k].appointment_id, remind[k].reminder_type)
           run == ExecuteNotification(remind[k], notifications, scheduled_notifications,
                                      reminder_id, "task_raised", clock)
       IN  /\ remind' = [remind EXCEPT ![k] = run.co]
           /\ notifications' = run.objs
    /\ UNCHANGED <<lookup, clock, billing_vars, claim_vars, appointment_db,
                   scheduled_notifications>>

\* _execute_scheduled_notification, lines 199-207: the send is over and the dict
\* the coroutine holds is marked sent
NotificationSent(k) ==
    /\ remind[k].pc = "sending"
    /\ notifications' = [notifications EXCEPT ![remind[k].held] = MarkSent(@, clock)]
    /\ remind' = [remind EXCEPT ![k].pc = "done", ![k].returned = TRUE]
    /\ UNCHANGED <<lookup, clock, billing_vars, claim_vars, appointment_db,
                   scheduled_notifications>>

----------------------------------------------------------------------------
(* Specifications *)

\* Values of the variables a specification does not use
RestLookup == lookup = [days_overdue |-> 0, follow_up_type |-> "None",
                        done |-> FALSE, rule |-> NoRule]

RestBilling ==
    /\ invoice_db = [i \in Invoices |-> MockInvoice]
    /\ active_followups = << >>
    /\ records = << >>
    /\ sched = [c \in SchedCalls |-> IdleSched]
    /\ pay = [p \in PayCalls |-> IdlePay]

RestClaims ==
    /\ claim_tracker = << >>
    /\ claim_task = [c \in ClaimIds |-> NewTask]
    /\ status_reply = NoReply

RestNotify ==
    /\ appointment_db = [a \in Appointments |-> MockAppointment]
    /\ scheduled_notifications = << >>
    /\ notifications = << >>
    /\ remind = [k \in RemindCalls |-> IdleRemind]

\* The rule table alone: every (days_overdue, follow_up_type) is looked up
InitRules ==
    /\ lookup \in [days_overdue : 0..MaxDays, follow_up_type : Categories,
                   done : {FALSE}, rule : {NoRule}]
    /\ clock = 1
    /\ RestBilling
    /\ RestClaims
    /\ RestNotify

LookupRule ==
    /\ ~lookup.done
    /\ lookup' = [lookup EXCEPT
                    !.rule = get_applicable_rule(lookup.days_overdue, lookup.follow_up_type),
                    !.done = TRUE]
    /\ UNCHANGED <<notify_vars, clock, billing_vars, claim_vars>>

NextRules == LookupRule

SpecRules == InitRules /\ [][NextRules]_vars

\* The billing follow-up tracker after BillingAutomation.__init__
InitBilling ==
    /\ RestLookup
    /\ clock = 1
    /\ RestBilling
    /\ RestClaims
    /\ RestNotify

NextBilling ==
    \/ \E c \in SchedCalls, invoice_id \in Invoices, rq \in SchedRequests :
            ScheduleFollowup(c, invoice_id, rq[1], rq[2])
    \/ \E c \in SchedCalls : FollowupStep(c)
    \/ \E p \in PayCalls, invoice_id \in Invoices : ProcessPayment(p, invoice_id)
    \/ \E p \in PayCalls : PaymentProcessed(p)

SpecBilling == InitBilling /\ [][NextBilling]_vars

\* The billing follow-up tracker under calls below the first threshold
NextNoRule ==
    \/ \E c \in SchedCalls, invoice_id \in Invoices, rq \in LowRequests :
            ScheduleFollowup(c, invoice_id, rq[1], rq[2])
    \/ \E c \in SchedCalls : FollowupStep(c)
    \/ \E p \in PayCalls, invoice_id \in Invoices : ProcessPayment(p, invoice_id)
    \/ \E p \in PayCalls : PaymentProcessed(p)

SpecNoRule == InitBilling /\ [][NextNoRule]_vars

\* The billing follow-up tracker with collaborators that can fail: the invoice
\* lookup may raise and the payment processor may decline
NextFaults ==
    \/ \E c \in SchedCalls, invoice_id \in Invoices, rq \in FaultRequests :
            ScheduleFollowup(c, invoice_id, rq[1], rq[2])
    \/ \E c \in SchedCalls, invoice_id \in Invoices, rq \in FaultRequests :
            InvoiceLookupFails(c, invoice_id, rq[1], rq[2])
    \/ \E c \in SchedCalls : FollowupStep(c)
    \/ \E p \in PayCalls, invoice_id \in Invoices : ProcessPayment(p, invoice_id)
    \/ \E p \in PayCalls : PaymentProcessed(p)
    \/ \E p \in PayCalls : PaymentDeclined(p)

SpecFaults == InitBilling /\ [][NextFaults]_vars

\* The billing follow-up tracker over an invoice store in which the first
\* invoice has any of the shapes and the others the one of this build
InitContacts ==
    /\ RestLookup
    /\ clock = 1
    /\ \E shape \in InvoiceSnapshots :
          invoice_db = [i \in Invoices |-> IF i = "INV-1" THEN shape ELSE MockInvoice]
    /\ active_followups = << >>
    /\ records = << >>
    /\ sched = [c \in SchedCalls |-> IdleSched]
    /\ pay = [p \in PayCalls |-> IdlePay]
    /\ RestClaims
    /\ RestNotify

NextContacts ==
    \/ \E c \in SchedCalls, invoice_id \in Invoices, rq \in ContactRequests :
            ScheduleFollowup(c, invoice_id, rq[1], rq[2])
    \/ \E c \in SchedCalls : FollowupStep(c)

SpecContacts == InitContacts /\ [][NextContacts]_vars

\* The reminder scheduler after NotificationService.__init__, under a running
\* clock
InitNotify ==
    /\ RestLookup
    /\ clock = 1
    /\ RestBilling
    /\ RestClaims
    /\ RestNotify

NextNotify ==
    \/ \E k \in RemindCalls, appointment_id \in Appointments,
          reminder_type \in ReminderTypes, schedule_time \in ScheduleTimes :
            ScheduleReminder(k, appointment_id, reminder_type, schedule_time)
    \/ \E k \in RemindCalls : DelayElapsed(k)
    \/ \E k \in RemindCalls : NotificationSent(k)
    \/ Tick

\* The event loop runs every task that is ready and time does not stop
FairNotify ==
    /\ \A k \in RemindCalls : WF_vars(DelayElapsed(k)) /\ WF_vars(NotificationSent(k))
    /\ WF_vars(Tick)

SpecNotify == InitNotify /\ [][NextNotify]_vars /\ FairNotify

\* The billing follow-up tracker over an invoice store in which every invoice
\* has both contact fields and any of the amounts
InitAmounts ==
    /\ RestLookup
    /\ clock = 1
    /\ invoice_db \in [Invoices -> { [MockInvoice EXCEPT !.amount = a] : a \in Amounts }]
    /\ active_followups = << >>
    /\ records = << >>
    /\ sched = [c \in SchedCalls |-> IdleSched]
    /\ pay = [p \in PayCalls |-> IdlePay]
    /\ RestClaims
    /\ RestNotify

NextAmounts ==
    \/ \E c \in SchedCalls, invoice_id \in Invoices, rq \in ReminderRequests :
            ScheduleFollowup(c, invoice_id, rq[1], rq[2])
    \/ \E c \in SchedCalls : FollowupStep(c)

SpecAmounts == InitAmounts /\ [][NextAmounts]_vars

\* The reminder scheduler over appointments of any shape
InitRecipients ==
    /\ RestLookup
    /\ clock = 1
    /\ RestBilling
    /\ RestClaims
    /\ appointment_db \in [Appointments -> AppointmentShapes]
    /\ scheduled_notifications = << >>
    /\ notifications = << >>
    /\ remind = [k \in RemindCalls |-> IdleRemind]

SpecRecipients == InitRecipients /\ [][NextNotify]_vars

\* The claim tracker after InsuranceProcessor.__init__
InitClaims ==
    /\ RestLookup
    /\ clock = 1
    /\ RestBilling
    /\ RestClaims
    /\ RestNotify

NextClaims ==
    \/ \E c \in ClaimIds, ai_analysis \in AiAnalyses : SubmitClaim(c, ai_analysis)
    \/ \E c \in ClaimIds : ClearinghouseDone(c)
    \/ \E c \in ClaimIds : TrackStep(c)
    \/ \E claim_id \in ClaimIds \cup {MaxClaims + 1} : GetClaimStatus(claim_id)
    \/ TakeReply

SpecClaims == InitClaims /\ [][NextClaims]_vars

\* The claim tracker without status queries, with the event loop running every
\* task whose sleep is over
NextTracking ==
    \/ \E c \in ClaimIds, ai_analysis \in AiAnalyses : SubmitClaim(c, ai_analysis)
    \/ \E c \in ClaimIds : ClearinghouseDone(c)
    \/ \E c \in ClaimIds : TrackStep(c)

FairTracking ==
    \A c \in ClaimIds : WF_vars(ClearinghouseDone(c)) /\ WF_vars(TrackStep(c))

SpecTracking == InitClaims /\ [][NextTracking]_vars /\ FairTracking

\* The claim tracker behind the request path of main.py: every submission is
\* queued by a request and the requester asks for the status by the id it got
NextRequests ==
    \/ \E c \in ClaimIds : SubmitClaimRequest(c)
    \/ \E c \in ClaimIds, ai_analysis \in AiAnalyses :
            IsSet(claim_task[c].handed) /\ SubmitClaim(c, ai_analysis)
    \/ \E c \in ClaimIds : ClearinghouseDone(c)
    \/ \E c \in ClaimIds : TrackStep(c)
    \/ \E c \in ClaimIds : ClaimStatusRequest(c)

SpecRequests == InitClaims /\ [][NextRequests]_vars

\* The whole service
Init == InitBilling

Next == NextBilling \/ NextClaims \/ Tick

Spec == Init /\ [][Next]_vars

----------------------------------------------------------------------------
(* Properties *)

\* C1: when process_payment returns success, every record of the invoice that
\* was scheduled at that moment is cancelled, with cancelled_at stamped, and
\* every record of the invoice that was executed stays executed with its
\* executed_at unchanged.
C1_PaymentCancelsScheduled ==
    [][\A p \in PayCalls :
         (pay[p].pc = "processing" /\ pay'[p].pc = "done" /\ pay'[p].result = "success")
         => \A fid \in DOMAIN active_followups :
              LET before == records[active_followups[fid]]
                  after == (records[active_followups[fid]])'
              IN  before.invoice_id = pay[p].invoice_id
                  => /\ before.status = "scheduled"
                          => after.status = "cancelled" /\ IsSet(after.cancelled_at)
                     /\ before.status = "executed"
                          => after.status = "executed"
                             /\ after.executed_at = before.executed_at]_vars

\* A successful payment has returned; one record of its invoice was cancelled by
\* it while its follow-up is still running, another one stayed executed
C1_Witness ==
    \E p \in PayCalls, f1, f2 \in DOMAIN active_followups :
        /\ pay[p].pc = "done" /\ pay[p].result = "success"
        /\ records[active_followups[f1]].invoice_id = pay[p].invoice_id
        /\ records[active_followups[f2]].invoice_id = pay[p].invoice_id
        /\ records[active_followups[f1]].status = "cancelled"
        /\ IsSet(records[active_followups[f1]].cancelled_at)
        /\ sched[active_followups[f1]].pc = "action"
        /\ records[active_followups[f2]].status = "executed"
        /\ IsSet(records[active_followups[f2]].executed_at)

\* C2: adjudication_result of a claim record changes only from unset to
\* approved or denied: once written it never changes, whatever the
\* interleaving of submissions, tracking rounds and status reads.
C2_AdjudicationWrittenOnce ==
    [][\A c \in DOMAIN claim_tracker :
         /\ c \in DOMAIN claim_tracker'
         /\ claim_tracker'[c].adjudication_result # claim_tracker[c].adjudication_result
              => /\ claim_tracker[c].adjudication_result = Unset
                 /\ claim_tracker'[c].adjudication_result
                      \in {Val("approved"), Val("denied")}]_vars

\* Two claims have gone through the whole pipeline with different results, and
\* a status read of one of them is being returned
C2_Witness ==
    \E c, d \in DOMAIN claim_tracker :
        /\ claim_task[c].pc = "finished" /\ claim_task[d].pc = "finished"
        /\ claim_tracker[c].adjudication_result = Val("approved")
        /\ claim_tracker[d].adjudication_result = Val("denied")
        /\ status_reply.claim_id = c
        /\ status_reply.snapshot # Unset
        /\ status_reply.snapshot[1].adjudication_result = Val("approved")

\* The status following a status in the pipeline
NextStatus(status) ==
    CASE status = "submitted" -> "received"
      [] status = "received" -> "processing"
      [] status = "processing" -> "adjudicated"
      [] status = "adjudicated" -> "paid"
      [] OTHER -> "none"

\* C3: the status of every claim record is one of submitted, received,
\* processing, adjudicated, paid, and every change of status moves the record
\* to the immediate successor in that order.
C3_StatusPipeline ==
    [][\A c \in DOMAIN claim_tracker' :
         /\ claim_tracker'[c].status
              \in {"submitted", "received", "processing", "adjudicated", "paid"}
         /\ (c \in DOMAIN claim_tracker
             /\ claim_tracker'[c].status # claim_tracker[c].status)
              => claim_tracker'[c].status = NextStatus(claim_tracker[c].status)]_vars

\* C4: a claim record has an appeal (appeal_id, with appeal_status submitted)
\* exactly when its adjudication_result is denied.
C4_AppealIffDenied ==
    \A c \in DOMAIN claim_tracker :
        LET r == claim_tracker[c]
        IN  /\ IsSet(r.appeal_id) <=> r.adjudication_result = Val("denied")
            /\ IsSet(r.appeal_id) => r.appeal_status = Val("submitted")
            /\ ~IsSet(r.appeal_id) => r.appeal_status = Unset

\* One claim was denied and carries an appeal, another was approved and has none
C4_Witness ==
    \E c, d \in DOMAIN claim_tracker :
        /\ claim_tracker[c].adjudication_result = Val("denied")
        /\ IsSet(claim_tracker[c].appeal_id)
        /\ claim_tracker[c].appeal_status = Val("submitted")
        /\ claim_tracker[d].adjudication_result = Val("approved")
        /\ ~IsSet(claim_tracker[d].appeal_id)

\* C5: a claim record has payment_amount and payment_date exactly when its
\* adjudication_result is approved and its status is paid; a denied claim never
\* has them.
C5_PaymentIffApprovedPaid ==
    \A c \in DOMAIN claim_tracker :
        LET r == claim_tracker[c]
        IN  /\ IsSet(r.payment_amount) <=> IsSet(r.payment_date)
            /\ IsSet(r.payment_amount)
                 <=> (r.adjudication_result = Val("approved") /\ r.status = "paid")

\* An approved claim was paid and has its payment fields; a denied claim went
\* through the last round of its tracking task and has none
C5_Witness ==
    \E c, d \in DOMAIN claim_tracker :
        /\ claim_tracker[c].adjudication_result = Val("approved")
        /\ claim_tracker[c].status = "paid"
        /\ claim_tracker[c].payment_amount = Val(450)
        /\ IsSet(claim_tracker[c].payment_date)
        /\ claim_tracker[d].adjudication_result = Val("denied")
        /\ claim_task[d].pc = "finished"
        /\ ~IsSet(claim_tracker[d].payment_amount)

\* C6: a claim submitted with approval_likelihood 100 is approved and a claim
\* submitted with approval_likelihood 0 is denied, whatever the random draw.
C6_CertainOutcomes ==
    \A c \in DOMAIN claim_tracker :
        LET r == claim_tracker[c]
        IN  IsSet(r.adjudication_result)
            => /\ r.ai_analysis = Val(100) => r.adjudication_result = Val("approved")
               /\ r.ai_analysis = Val(0) => r.adjudication_result = Val("denied")

\* A claim of likelihood 100 and a claim of likelihood 0 have both been adjudicated
C6_Witness ==
    \E c, d \in DOMAIN claim_tracker :
        /\ claim_tracker[c].ai_analysis = Val(100)
        /\ claim_tracker[c].adjudication_result = Val("approved")
        /\ claim_tracker[d].ai_analysis = Val(0)
        /\ claim_tracker[d].adjudication_result = Val("denied")

\* C7: for every days_overdue >= 90 and every requested category the rule
\* returned is the collections rule.
C7_CollectionsFrom90 ==
    (lookup.done /\ lookup.days_overdue >= 90)
    => lookup.rule.follow_up_type = "collections"

\* C7 as amended: for every days_overdue >= 90 the rule returned is the rule of
\* the requested category when the request names a rule's category, and the
\* collections rule for any other string.
C7_ExactMatchFrom90 ==
    (lookup.done /\ lookup.days_overdue >= 90)
    => /\ \E i \in DOMAIN billing_rules : lookup.rule = billing_rules[i]
       /\ lookup.rule.follow_up_type =
            IF lookup.follow_up_type \in FollowUpType
            THEN lookup.follow_up_type ELSE "collections"

\* firm was requested at 95 days and the firm rule came back; so did the
\* collections rule for a category no rule has
C7_Witness ==
    /\ lookup.done
    /\ lookup.days_overdue = 95
    /\ \/ lookup.follow_up_type = "firm" /\ lookup.rule = billing_rules[2]
       \/ lookup.follow_up_type = "other" /\ lookup.rule = billing_rules[4]

\* C8: for every days_overdue from 7 to 29 and every requested category the
\* rule returned is the gentle rule.
C8_GentleFrom7To29 ==
    (lookup.done /\ 7 <= lookup.days_overdue /\ lookup.days_overdue < 30)
    => lookup.rule = billing_rules[1]

\* At exactly 7 days a request for collections got the gentle rule
C8_Witness ==
    /\ lookup.done
    /\ lookup.days_overdue = 7
    /\ lookup.follow_up_type = "collections"
    /\ lookup.rule.follow_up_type = "gentle"

\* C9: a schedule_followup call with days_overdue < 7 resolves no rule and is a
\* no-op: it returns at once, creates no record, dispatches nothing and leaves
\* active_followups and the records in it as they were.
C9_NoRuleNoOp ==
    [][\A c \in SchedCalls :
         /\ (sched[c].pc = "idle" /\ sched'[c].pc # "idle" /\ sched'[c].days_overdue < 7)
              => /\ sched'[c].pc = "done"
                 /\ sched'[c].dispatched = {}
                 /\ UNCHANGED <<active_followups, records>>
         /\ (sched[c].pc = "done" /\ sched[c].days_overdue < 7)
              => sched'[c] = sched[c]]_vars

\* A call below the threshold has returned; the id it asked for holds the
\* executed record an earlier call left there
C9_Witness ==
    \E c \in SchedCalls :
        /\ sched[c].pc = "done"
        /\ sched[c].days_overdue < 7
        /\ sched[c].dispatched = {}
        /\ c \notin DOMAIN records
        /\ FollowupId(sched[c].invoice_id, sched[c].follow_up_type)
             \in DOMAIN active_followups
        /\ StoredStatus(FollowupId(sched[c].invoice_id, sched[c].follow_up_type))
             = "executed"

\* C10: the status stored under a follow-up id only changes from scheduled to
\* executed or from scheduled to cancelled.
C10_StatusOnlyLeavesScheduled ==
    [][\A fid \in DOMAIN active_followups :
         StoredStatus(fid)' # StoredStatus(fid)
         => /\ StoredStatus(fid) = "scheduled"
            /\ StoredStatus(fid)' \in {"executed", "cancelled"}]_vars

\* C11: the table never holds two scheduled records for the same invoice and
\* category, also while two schedule_followup calls for the same pair are under
\* way; and once two such calls have both returned, they have not both left a
\* scheduled record.
C11_OneScheduledPerPair ==
    /\ \A f1, f2 \in DOMAIN active_followups :
          LET r1 == records[active_followups[f1]]
              r2 == records[active_followups[f2]]
          IN  (/\ r1.invoice_id = r2.invoice_id
               /\ r1.follow_up_type = r2.follow_up_type
               /\ r1.status = "scheduled"
               /\ r2.status = "scheduled") => f1 = f2
    /\ \A c, d \in DOMAIN records :
          (/\ c # d
           /\ sched[c].pc = "done" /\ sched[d].pc = "done"
           /\ records[c].invoice_id = records[d].invoice_id
           /\ records[c].follow_up_type = records[d].follow_up_type)
          => ~(records[c].status = "scheduled" /\ records[d].status = "scheduled")

\* Two calls for the same invoice and category are both between their store and
\* their last send; the table holds the record of the later one, scheduled
C11_Witness ==
    \E c, d \in DOMAIN records :
        /\ c # d
        /\ sched[c].pc = "action" /\ sched[d].pc = "action"
        /\ records[c].invoice_id = records[d].invoice_id
        /\ records[c].follow_up_type = records[d].follow_up_type
        /\ \E fid \in DOMAIN active_followups :
              active_followups[fid] = d /\ StoredStatus(fid) = "scheduled"

\* C12: a schedule_followup call for which a rule resolves stores a record with
\* the requested category and status scheduled, and at the moment the call
\* returns the record it stored is executed with executed_at stamped.
C12_StoredThenExecuted ==
    [][\A c \in SchedCalls :
         /\ (sched[c].pc = "idle" /\ sched'[c].pc = "action")
              => /\ c \in DOMAIN records'
                 /\ records'[c].follow_up_type = sched'[c].follow_up_type
                 /\ records'[c].rule =
                      get_applicable_rule(sched'[c].days_overdue, sched'[c].follow_up_type)
                 /\ records'[c].status = "scheduled"
                 /\ active_followups'[FollowupId(sched'[c].invoice_id,
                                                 sched'[c].follow_up_type)] = c
         /\ (sched[c].pc = "action" /\ sched'[c].pc = "done")
              => /\ records'[c].status = "executed"
                 /\ IsSet(records'[c].executed_at)]_vars

\* A call for 35 days and category firm has returned: its record is executed;
\* a payment for the invoice had cancelled the record while the send was under way
C12_Witness ==
    \E c \in DOMAIN records, p \in PayCalls :
        /\ sched[c].pc = "done"
        /\ sched[c].days_overdue = 35 /\ sched[c].follow_up_type = "firm"
        /\ records[c].status = "executed" /\ IsSet(records[c].executed_at)
        /\ pay[p].pc = "done" /\ pay[p].invoice_id = records[c].invoice_id
        /\ IsSet(records[c].cancelled_at)

\* C13: when the payment processor answers with a status other than success,
\* process_payment changes no follow-up record and returns that result.
C13_DeclinedChangesNothing ==
    [][\A p \in PayCalls :
         (pay[p].pc = "processing" /\ pay'[p].pc = "done" /\ pay'[p].result # "success")
         => /\ UNCHANGED <<active_followups, records>>
            /\ pay'[p].result \in DeclinedResults]_vars

\* A declined payment has returned while a record of its invoice is scheduled
\* and its follow-up still running
C13_Witness ==
    \E p \in PayCalls, fid \in DOMAIN active_followups :
        /\ pay[p].pc = "done" /\ pay[p].result = "failed"
        /\ records[active_followups[fid]].invoice_id = pay[p].invoice_id
        /\ StoredStatus(fid) = "scheduled"
        /\ sched[active_followups[fid]].pc = "action"

\* C14: get_claim_status fails with not found for every id that is not in the
\* tracker; for an id in it, it returns the record's current status,
\* adjudication result, approved amount, payment fields and appeal fields; in
\* both cases the tracker is left as it was.
C14_StatusQuery ==
    [][(status_reply = NoReply /\ status_reply' # NoReply)
       => LET r == status_reply'
          IN  /\ claim_tracker' = claim_tracker
              /\ IF r.claim_id \notin DOMAIN claim_tracker
                 THEN r.error = "not found" /\ r.snapshot = Unset
                 ELSE /\ r.error = "None"
                      /\ IsSet(r.snapshot)
                      /\ LET s == r.snapshot[1]
                             claim_info == claim_tracker[r.claim_id]
                         IN  /\ s.claim_id = r.claim_id
                             /\ s.status = claim_info.status
                             /\ s.adjudication_result = claim_info.adjudication_result
                             /\ s.approved_amount = claim_info.approved_amount
                             /\ s.payment_amount = claim_info.payment_amount
                             /\ s.payment_date = claim_info.payment_date
                             /\ s.appeal_id = claim_info.appeal_id
                             /\ s.appeal_status = claim_info.appeal_status]_vars

\* A query for an id that was never submitted has failed while the tracker
\* holds a denied claim with an appeal
C14_Witness ==
    /\ status_reply.claim_id \notin DOMAIN claim_tracker
    /\ status_reply.error = "not found"
    /\ \E c \in DOMAIN claim_tracker : IsSet(claim_tracker[c].appeal_id)

\* C15: submit_claim does not wait for the clearinghouse: while the clearinghouse
\* call of a claim is still under way, the call can return the claim id, that
\* is, a step that hands the id back and leaves the dispatch under way is enabled.
C15_ReturnNotBlocked ==
    \A c \in ClaimIds :
        (ReplyTaken /\ claim_task[c].pc = "clearinghouse" /\ ~IsSet(claim_task[c].returned))
        => ENABLED (/\ NextClaims
                    /\ claim_task'[c].pc = "clearinghouse"
                    /\ IsSet(claim_task'[c].returned))

\* C16: a denied claim never has status paid; only approved claims reach paid.
C16_DeniedNeverPaid ==
    \A c \in DOMAIN claim_tracker :
        claim_tracker[c].status = "paid"
        => claim_tracker[c].adjudication_result = Val("approved")

\* C17: adjudication_result is unset while the status is submitted, received or
\* processing, and is approved or denied whenever the status is adjudicated or
\* paid.
C17_AdjudicationMatchesStatus ==
    \A c \in DOMAIN claim_tracker :
        LET claim == claim_tracker[c]
        IN  /\ claim.status \in {"submitted", "received", "processing"}
                 => claim.adjudication_result = Unset
            /\ claim.status \in {"adjudicated", "paid"}
                 => claim.adjudication_result \in {Val("approved"), Val("denied")}

\* One claim is in processing without a result while another one has just been
\* adjudicated and carries one
C17_Witness ==
    \E c, d \in DOMAIN claim_tracker :
        /\ claim_tracker[c].status = "processing"
        /\ claim_tracker[c].adjudication_result = Unset
        /\ claim_tracker[d].status = "adjudicated"
        /\ claim_tracker[d].adjudication_result = Val("denied")

\* C18: in the billing follow-up flow a send whose contact field is missing from
\* the invoice snapshot (email for email, phone for SMS and for phone calls) is
\* skipped without raising, for reminders, final notices and collections alike:
\* no call ends in an error, nothing goes out on a channel without its field,
\* and the record of a returned call is executed.
C18_MissingContactSkipped ==
    \A c \in SchedCalls :
        /\ sched[c].pc \in {"idle", "action", "done"}
        /\ c \in DOMAIN records
             => LET invoice_data == records[c].invoice_data
                IN  /\ "email" \in sched[c].dispatched => IsSet(invoice_data.email)
                    /\ "sms" \in sched[c].dispatched => IsSet(invoice_data.phone)
                    /\ "phone_call" \in sched[c].dispatched => IsSet(invoice_data.phone)
                    /\ sched[c].pc = "done"
                         => /\ records[c].status = "executed"
                            /\ IsSet(records[c].executed_at)

\* For an invoice without email and without phone a reminder call and a
\* collections call have both returned: nothing went out, both records are
\* executed and the collections case was still opened
C18_Witness ==
    \E c, d \in DOMAIN records :
        /\ sched[c].pc = "done" /\ sched[d].pc = "done"
        /\ records[c].invoice_data.email = Unset /\ records[c].invoice_data.phone = Unset
        /\ records[d].invoice_data.email = Unset
        /\ records[c].rule.action = "send_reminder"
        /\ records[d].rule.action = "send_to_collections"
        /\ sched[c].dispatched = {} /\ sched[d].dispatched = {}
        /\ records[c].status = "executed" /\ records[d].status = "executed"
        /\ IsSet(records[d].collections_id)

\* C19: when the invoice lookup fails, schedule_followup fails as a whole: the
\* call ends with the error, no record is created or modified and the call
\* dispatches no message.
C19_LookupFailureAborts ==
    [][\A c \in SchedCalls :
         /\ (sched[c].pc = "idle" /\ sched'[c].pc = "raised")
              => UNCHANGED <<active_followups, records>>
         /\ sched'[c].pc = "raised"
              => /\ sched'[c].dispatched = {}
                 /\ sched'[c].todo = << >>
                 /\ \A fid \in DOMAIN active_followups' : active_followups'[fid] # c]_vars

\* A call for an invoice has failed in the lookup while an earlier call for the
\* same invoice and category has its record scheduled in the table
C19_Witness ==
    \E c \in SchedCalls, fid \in DOMAIN active_followups :
        /\ sched[c].pc = "raised"
        /\ fid = FollowupId(sched[c].invoice_id, sched[c].follow_up_type)
        /\ active_followups[fid] # c
        /\ StoredStatus(fid) = "scheduled"

\* C20: each scheduling of a reminder makes _execute_scheduled_notification run
\* exactly once for it: with a positive delay the scheduling call returns with
\* the run still to come, the run does not start before the delay is over and it
\* does start in the end; with a delay of zero or less the run starts within the
\* scheduling step; no scheduling is run a second time.
C20_RunsOnceAfterDelay ==
    /\ [][\A k \in RemindCalls :
             /\ remind'[k].runs <= 1
             /\ remind'[k].runs > remind[k].runs => clock >= remind'[k].wake_at
             /\ (remind[k].pc = "idle" /\ remind'[k].pc # "idle")
                  => IF remind'[k].wake_at > clock
                     THEN /\ remind'[k].runs = 0
                          /\ remind'[k].returned
                          /\ remind'[k].pc = "sleeping"
                     ELSE remind'[k].runs = 1]_vars
    /\ \A k \in RemindCalls : (remind[k].pc = "sleeping") ~> (remind[k].runs = 1)

\* A reminder scheduled ahead of time has been run after its delay, and one
\* scheduled with the default time, which is in the past, has been run as well
C20_Witness ==
    \E k, j \in RemindCalls :
        /\ remind[k].wake_at > 1 /\ remind[k].runs = 1 /\ remind[k].pc = "done"
        /\ clock >= remind[k].wake_at
        /\ remind[j].pc = "done" /\ remind[j].runs = 1
        /\ remind[j].wake_at = AppointmentTime - ReminderLead

\* C21: the category of every follow-up record is one of gentle, firm,
\* final_notice and collections, whatever string the caller passed, and the
\* category stored under a record id never changes.
C21_CategoryOfTheFour ==
    /\ [](\A fid \in DOMAIN active_followups :
            records[active_followups[fid]].follow_up_type \in FollowUpType)
    /\ [][\A fid \in DOMAIN active_followups :
            (records[active_followups[fid]].follow_up_type)'
              = records[active_followups[fid]].follow_up_type]_vars

\* C22: a follow-up record carries a collections case id, or the mark
\* sent_to_collections, only if its category is collections.
C22_CollectionsIdOnlyForCollections ==
    \A c \in DOMAIN records :
        (IsSet(records[c].collections_id) \/ records[c].sent_to_collections)
        => records[c].follow_up_type = "collections"

\* C23: a successful payment for an invoice writes only status and cancelled_at
\* on the records and leaves every running follow-up where it is; a follow-up
\* between its store and its last send can always take its next step, cancelled
\* or not, and a send made for a cancelled record still goes out.
C23_CancellationAdvisory ==
    /\ [][\A p \in PayCalls :
             (pay[p].pc = "processing" /\ pay'[p].pc = "done")
             => /\ sched' = sched
                /\ active_followups' = active_followups
                /\ \A c \in DOMAIN records :
                      records'[c] = [records[c] EXCEPT
                                       !.status = records'[c].status,
                                       !.cancelled_at = records'[c].cancelled_at]]_vars
    /\ [](\A c \in SchedCalls : sched[c].pc = "action" => ENABLED FollowupStep(c))
    /\ [][\A c \in SchedCalls :
             (/\ sched[c].pc = "action"
              /\ sched'[c] # sched[c]
              /\ records[c].status = "cancelled"
              /\ Head(sched[c].todo) \in {"email", "sms", "phone_call", "certified_mail"})
             => Head(sched[c].todo) \in sched'[c].dispatched]_vars

\* A reminder whose record a payment had cancelled while the email was under way
\* has gone out all the same, and the call has returned
C23_Witness ==
    \E c \in DOMAIN records, p \in PayCalls :
        /\ pay[p].pc = "done" /\ pay[p].result = "success"
        /\ pay[p].invoice_id = records[c].invoice_id
        /\ IsSet(records[c].cancelled_at)
        /\ records[c].rule.action = "send_reminder"
        /\ sched[c].pc = "done"
        /\ "email" \in sched[c].dispatched

\* C24: for every days_overdue and every requested category the rule returned
\* is the one of the reference: the rule of the requested category when its
\* threshold is at most days_overdue; otherwise the rule with the largest
\* threshold at most days_overdue; otherwise none.  The rules are (7, gentle,
\* send_reminder), (30, firm, send_reminder), (60, final_notice,
\* send_final_notice) and (90, collections, send_to_collections).
C24_RuleMatchesReference ==
    LET reference == { <<7, "gentle", "send_reminder">>,
                       <<30, "firm", "send_reminder">>,
                       <<60, "final_notice", "send_final_notice">>,
                       <<90, "collections", "send_to_collections">> }
        below == { r \in reference : r[1] <= lookup.days_overdue }
        exact == { r \in below : r[2] = lookup.follow_up_type }
        got == <<lookup.rule.days_after_due, lookup.rule.follow_up_type,
                 lookup.rule.action>>
    IN  lookup.done
        => IF exact # {} THEN got \in exact
           ELSE IF below # {} THEN got \in below /\ \A r \in below : r[1] <= got[1]
           ELSE lookup.rule = NoRule

\* collections was requested at 45 days: no rule of that category applies yet
\* and the firm rule, the closest below, came back
C24_Witness ==
    /\ lookup.done
    /\ lookup.days_overdue = 45
    /\ lookup.follow_up_type = "collections"
    /\ lookup.rule = billing_rules[2]

\* C25: _send_notification starts the send of a template's channel only if the
\* recipient has the contact field of that channel (phone for sms and voice,
\* email for email); when the field is missing the run of a scheduled reminder
\* starts no send, ends without an error and marks the reminder sent.
C25_SendNeedsContact ==
    [][\A k \in RemindCalls :
         remind'[k].runs > remind[k].runs
         => LET notification == notifications'[remind'[k].held]
                template_id == TemplateId(notification.channel)
                channel == IF template_id \in DOMAIN templates
                           THEN templates[template_id] ELSE "None"
                has_field == \/ channel \in {"sms", "voice"}
                                /\ IsSet(notification.data.phone)
                             \/ channel = "email" /\ IsSet(notification.data.email)
            IN  /\ remind'[k].pc = "sending" => has_field
                /\ (channel # "None" /\ ~has_field)
                     => /\ remind'[k].pc = "done"
                        /\ remind'[k].error = "None"
                        /\ notification.status = "sent"
                        /\ IsSet(notification.sent_time)]_vars

\* An SMS reminder for a recipient without phone has been run: no error, and
\* the reminder is marked sent
C25_Witness ==
    \E k \in RemindCalls :
        /\ remind[k].pc = "done" /\ remind[k].runs = 1
        /\ remind[k].reminder_type = "sms"
        /\ remind[k].error = "None"
        /\ notifications[remind[k].held].data.phone = Unset
        /\ notifications[remind[k].held].status = "sent"

\* C26: for a send_reminder follow-up of an invoice with both contact fields the
\* channels depend on the amount alone: above 500 the email reminder and a phone
\* call, above 100 and up to 500 the email reminder only, up to 100 the SMS
\* reminder only; 100 and 500 belong to the lower band.
C26_ChannelsByAmount ==
    \A c \in DOMAIN records :
        LET amount == records[c].invoice_data.amount
            expected == IF amount > 500 THEN {"email", "phone_call"}
                        ELSE IF amount > 100 THEN {"email"}
                        ELSE {"sms"}
        IN  /\ records[c].rule.action = "send_reminder"
            /\ sched[c].dispatched \subseteq expected
            /\ sched[c].pc = "done" => sched[c].dispatched = expected

\* Reminders for an invoice of exactly 500 and for one of exactly 100 have
\* returned: the first went out by email without a phone call, the second by SMS
C26_Witness ==
    \E c, d \in DOMAIN records :
        /\ sched[c].pc = "done" /\ sched[d].pc = "done"
        /\ records[c].invoice_data.amount = 500 /\ sched[c].dispatched = {"email"}
        /\ records[d].invoice_data.amount = 100 /\ sched[d].dispatched = {"sms"}

\* C27: under fair scheduling of the tracking task every approved claim
\* eventually has status paid; whenever an approved claim is paid its
\* payment_date is stamped and its payment_amount is the approved_amount, which
\* has not changed since adjudication.
C27_ApprovedEventuallyPaid ==
    /\ \A c \in ClaimIds :
          (IF c \in DOMAIN claim_tracker
           THEN claim_tracker[c].adjudication_result = Val("approved")
           ELSE FALSE)
          ~> (IF c \in DOMAIN claim_tracker
              THEN /\ claim_tracker[c].status = "paid"
                   /\ IsSet(claim_tracker[c].payment_date)
                   /\ IsSet(claim_tracker[c].approved_amount)
                   /\ claim_tracker[c].payment_amount = claim_tracker[c].approved_amount
              ELSE FALSE)
    /\ [](\A c \in DOMAIN claim_tracker :
            (claim_tracker[c].adjudication_result = Val("approved")
               /\ claim_tracker[c].status = "paid")
            => /\ IsSet(claim_tracker[c].payment_date)
               /\ claim_tracker[c].payment_amount = claim_tracker[c].approved_amount)
    /\ [][\A c \in DOMAIN claim_tracker :
             claim_tracker[c].adjudication_result = Val("approved")
             => claim_tracker'[c].approved_amount = claim_tracker[c].approved_amount]_vars

\* An approved claim is paid: the payment carries the approved amount
C27_Witness ==
    \E c \in DOMAIN claim_tracker :
        /\ claim_tracker[c].adjudication_result = Val("approved")
        /\ claim_tracker[c].status = "paid"
        /\ IsSet(claim_tracker[c].payment_date)
        /\ IsSet(claim_tracker[c].approved_amount)
        /\ claim_tracker[c].payment_amount = claim_tracker[c].approved_amount
        /\ claim_task[c].pc = "finished"

\* C28: no reminder stays scheduled: for every reminder type the API accepts,
\* once the run of a scheduled reminder is over, the reminder it ran for is sent.
C28_RunLeavesSent ==
    \A k \in RemindCalls :
        remind[k].pc \in {"done", "raised", "task_raised"}
        => /\ remind[k].held \in DOMAIN notifications
           /\ notifications[remind[k].held].status = "sent"

\* C29: over any sequence of schedule_reminder calls, repeated ones for the same
\* appointment and reminder type included, the status stored under a reminder id
\* never goes back from sent to scheduled, and a send for a reminder id starts
\* only if no other send for that id is under way or over.
C29_SentOnceForGood ==
    [][/\ \A rid \in DOMAIN scheduled_notifications :
             notifications[scheduled_notifications[rid]].status = "sent"
             => notifications'[scheduled_notifications'[rid]].status = "sent"
       /\ \A k \in RemindCalls :
             (remind[k].pc # "sending" /\ remind'[k].pc = "sending")
             => \A j \in RemindCalls \ {k} :
                  (/\ remind[j].appointment_id = remind'[k].appointment_id
                   /\ remind[j].reminder_type = remind'[k].reminder_type)
                  => remind[j].pc \notin {"sending", "done"}]_vars

\* C30: the claim id handed back by the submit-claim request identifies the
\* tracked claim: once the background submission has stored its record, a status
\* query with the id handed back finds it.
C30_HandedIdFindsClaim ==
    [][\A c \in ClaimIds :
         (/\ claim_task[c].answer = "None"
          /\ claim_task'[c].answer # "None"
          /\ c \in DOMAIN claim_tracker)
         => claim_task'[c].answer = "found"]_vars

====
